---- MODULE Spec2Model ----
(***************************************************************************)
(* Model of the sunthalpy Home Assistant integration:                       *)
(*   - the integral accumulator of sensor.py (IntegralSensor and            *)
(*     DailyIntegralSensor): change events, periodic ticks, the midnight    *)
(*     reset, the tasks they schedule, persistence and restore;             *)
(*   - the API client of api.py: login, group fetches, enrichment,          *)
(*     snapshot publication, commands and the error mapping, with the       *)
(*     coordinator that polls it and the refresh timers of switch.py and    *)
(*     number.py;                                                           *)
(*   - _get_aero_state, _get_dew_point and _update_integral as functions of *)
(*     their arguments.                                                     *)
(*                                                                         *)
(* Representation.  An optional value is a sequence: <<>> is None and <<x>> *)
(* is the value x.  Time is counted in whole hours (UTC) since 00:00 UTC of *)
(* day 0.  The accumulated total is kept in half units (StateScale = 2), so *)
(* that ((last + v) / 2) * hours is the integer (last + v) * hours.  A      *)
(* scalar of a JSON payload carries its Python type: <<"int", n>>,          *)
(* <<"str", s>> or <<"float", h>> with h in hundredths.                     *)
(***************************************************************************)
EXTENDS Integers, Sequences, FiniteSets, TLC

\* ------------------------------------------------------------------ bounds

\* Hours the clock may advance past StartClock.
MaxTicks == 2

\* Tasks that may be pending on the event loop at once.
MaxQueue == 2

\* ------------------------------------------------------- time and encodings

None == <<>>

Some(x) == <<x>>

\* Hours in a day: date() of a datetime counted in hours.
HoursPerDay == 24

\* Offset of the host's local time zone from UTC, in hours (dt_util.as_local).
TzOffset == 1

\* The model starts at 22:00 local time of day 0.
StartClock == 22 - TzOffset

MaxClock == StartClock + MaxTicks

\* dt_util.as_local(t).date(), and dt_util.now().date() for t = utcnow().
LocalDate(t) == (t + TzOffset) \div HoursPerDay

\* Local hour of day; async_track_time_change(hour=0, minute=0, second=0)
\* fires when it is 0.
LocalHour(t) == (t + TzOffset) % HoursPerDay

\* datetime.isoformat() of an aware UTC datetime: date part, time part, offset.
IsoFormat(t) == [date |-> t \div HoursPerDay, hour |-> t % HoursPerDay, tz |-> "+00:00"]

\* Variant: the string is read as local time.
ParseDatetime_AsLocal(s) == s.date * HoursPerDay + s.hour - TzOffset

\* dt_util.parse_datetime of such a string.
ParseDatetime(s) == s.date * HoursPerDay + s.hour

\* Factor between the modelled total and the real one: the division by 2 of
\* the trapezoid is not carried out.
StateScale == 2

\* The numeric strings a source entity reports, and the other states.
NumericStates == {"10", "20"}

OtherStates == {"unknown", "unavailable", "abc"}

SourceStates == {None} \cup {Some(s) : s \in NumericStates \cup OtherStates}

\* Variant: a string that is not a number counts as 0.
ParseFloat_DefaultsToZero(s) ==
    IF s = "10" THEN [ok |-> TRUE, v |-> 10]
    ELSE IF s = "20" THEN [ok |-> TRUE, v |-> 20]
    ELSE [ok |-> TRUE, v |-> 0]

\* float(s): the number, or ValueError.
ParseFloat(s) ==
    IF s = "10" THEN [ok |-> TRUE, v |-> 10]
    ELSE IF s = "20" THEN [ok |-> TRUE, v |-> 20]
    ELSE [ok |-> FALSE, v |-> 0]

\* ------------------------------------------------------------------- state

VARIABLES
    clock,              \* dt_util.utcnow(), in hours
    daily,              \* TRUE for a DailyIntegralSensor, FALSE for an IntegralSensor
    source,             \* hass.states.get(self._source_entity_id): None or its state string
    self_state,         \* IntegralSensor._state, in half units
    self_last_value,    \* IntegralSensor._last_value
    self_last_update,   \* IntegralSensor._last_update
    self_is_updating,   \* IntegralSensor._is_updating
    tasks,              \* coroutines handed to hass.async_create_task, not yet run
    midnightDue,        \* the local-midnight timer has expired, its callback has not run
    stored,             \* what async_get_last_state() will return: None or the attributes
    last                \* history: the last accumulator operation, the state before it, its input

accVars == <<clock, daily, source, self_state, self_last_value, self_last_update,
             self_is_updating, tasks, midnightDue, stored, last>>

\* ---------------------------------------------------------------- client state

VARIABLES
    self_data,          \* IntegrationBlueprintApiClient._data: None or a snapshot
    self_prev_data,     \* IntegrationBlueprintApiClient._prev_data
    op,                 \* the client operation in flight or last finished
    pc,                 \* the request the operation in flight is suspended on, or "idle"
    data,               \* async_get_data's local dict: the groups fetched so far
    auth,               \* data_headers["auth"] of the operation in flight
    outcome,            \* how the last finished operation ended: "ok" or the exception
    sent,               \* the requests the operation has issued: url and auth header
    nextToken,          \* the token the backend issues at the next login
    calls,              \* operations started
    lastResp,           \* history: the response the operation last received
    atStart,            \* history: (_data, _prev_data) when the operation started
    published,          \* history: the snapshots async_get_data has returned
    coordinator,        \* the update coordinator: data, last_update_success, polling
    timers              \* the callbacks async_call_later has scheduled, not yet run

clientVars == <<self_data, self_prev_data, op, pc, data, auth, outcome, sent, nextToken,
                calls, lastResp, atStart, published, coordinator, timers>>

\* ------------------------------------------------------------ function calls

VARIABLES
    called,             \* the function called and its arguments, None when there is no call
    returned            \* what the call came to, None until it has

fnVars == <<called, returned>>

vars == <<accVars, clientVars, fnVars>>

\* The accumulator's own fields as one value.
Acc == [state |-> self_state, last_value |-> self_last_value,
        last_update |-> self_last_update, is_updating |-> self_is_updating]

SetAcc(a) ==
    /\ self_state' = a.state
    /\ self_last_value' = a.last_value
    /\ self_last_update' = a.last_update
    /\ self_is_updating' = a.is_updating

\* IntegralSensor.__init__
NewAcc == [state |-> 0, last_value |-> None, last_update |-> None, is_updating |-> FALSE]

\* ------------------------------------------------------ accumulator functions

\* IntegralSensor.extra_state_attributes
ExtraStateAttributes(a) ==
    [last_state |-> a.state,
     last_value |-> a.last_value,
     last_update |-> IF a.last_update # None THEN Some(IsoFormat(a.last_update[1])) ELSE None]

\* Variant: a rectangle on the current value instead of the trapezoid.
UpdateIntegral_Rectangle(a, current_value, current_time) ==
    LET increment ==
            IF a.last_value # None /\ a.last_update # None
            THEN (current_value + current_value) * (current_time - a.last_update[1])
            ELSE 0
    IN [a EXCEPT !.state = @ + increment,
                 !.last_value = Some(current_value),
                 !.last_update = Some(current_time)]

\* IntegralSensor._update_integral
UpdateIntegral(a, current_value, current_time) ==
    LET increment ==
            IF a.last_value # None /\ a.last_update # None
            THEN (a.last_value[1] + current_value) * (current_time - a.last_update[1])
            ELSE 0
    IN [a EXCEPT !.state = @ + increment,
                 !.last_value = Some(current_value),
                 !.last_update = Some(current_time)]

\* Variant: the flag is released after the try block only when it ends
\* without an exception.
Finally_SkippedOnError(a, raised) ==
    IF raised THEN a ELSE [a EXCEPT !.is_updating = FALSE]

\* The finally clause of _async_update_with_lock and _async_reset_with_lock:
\* it runs whether the try block ended or raised.
Finally(a, raised) == [a EXCEPT !.is_updating = FALSE]

\* Variant: the flag is not released (no finally).
AsyncUpdateWithLock_NoRelease(a, current_value, current_time, raised) ==
    IF a.is_updating
    THEN a
    ELSE UpdateIntegral([a EXCEPT !.is_updating = TRUE], current_value, current_time)

\* IntegralSensor._async_update_with_lock: no await between the test of the
\* flag and its release, so the coroutine runs as one step.
\* raised: async_write_ha_state raises, after _update_integral has run.
AsyncUpdateWithLock(a, current_value, current_time, raised) ==
    IF a.is_updating
    THEN a
    ELSE Finally(UpdateIntegral([a EXCEPT !.is_updating = TRUE],
                                current_value, current_time), raised)

\* The source state is one the callbacks and the seeding accept before float().
Usable(st) == st # None /\ st[1] \notin {"unknown", "unavailable"}

\* Variant: the seeding records the value without the time.
SeedFromSource_ValueOnly(a, src, now) ==
    IF Usable(src) /\ ParseFloat(src[1]).ok
    THEN [a EXCEPT !.last_value = Some(ParseFloat(src[1]).v)]
    ELSE a

\* "Initialize with current state": shared by async_added_to_hass and the reset.
SeedFromSource(a, src, now) ==
    IF Usable(src) /\ ParseFloat(src[1]).ok
    THEN [a EXCEPT !.last_value = Some(ParseFloat(src[1]).v), !.last_update = Some(now)]
    ELSE a

\* Variant: the total is not set to 0.
AsyncResetWithLock_KeepsTotal(a, src, now, raised) ==
    IF a.is_updating
    THEN a
    ELSE LET zero == [a EXCEPT !.is_updating = TRUE,
                               !.last_value = None, !.last_update = None]
         IN Finally(SeedFromSource(zero, src, now), raised)

\* DailyIntegralSensor._async_reset_with_lock
\* raised: async_write_ha_state raises, after the attributes are set.
AsyncResetWithLock(a, src, now, raised) ==
    IF a.is_updating
    THEN a
    ELSE LET zero == [a EXCEPT !.is_updating = TRUE, !.state = 0,
                               !.last_value = None, !.last_update = None]
         IN Finally(SeedFromSource(zero, src, now), raised)

\* Variant: the dates compared are UTC dates.
PostProcessRestore_UtcDates(a, isDaily, now) ==
    IF isDaily /\ a.last_update # None
       /\ now \div HoursPerDay > a.last_update[1] \div HoursPerDay
    THEN [a EXCEPT !.state = 0, !.last_value = None, !.last_update = None]
    ELSE a

\* DailyIntegralSensor._post_process_restore (IntegralSensor's does nothing)
PostProcessRestore(a, isDaily, now) ==
    IF isDaily /\ a.last_update # None /\ LocalDate(now) > LocalDate(a.last_update[1])
    THEN [a EXCEPT !.state = 0, !.last_value = None, !.last_update = None]
    ELSE a

\* The restore part of async_added_to_hass, on a new object.
RestoreAttributes(st, isDaily, now) ==
    IF st = None
    THEN NewAcc
    ELSE LET attrs == st[1]
             restored ==
                 [NewAcc EXCEPT
                    !.state = attrs.last_state,
                    !.last_value = IF attrs.last_value # None THEN attrs.last_value ELSE @,
                    !.last_update = IF attrs.last_update # None
                                    THEN Some(ParseDatetime(attrs.last_update[1])) ELSE @]
         IN PostProcessRestore(restored, isDaily, now)

\* IntegralSensor.async_added_to_hass: restore, then seed if no last value.
AddedToHass(st, isDaily, src, now) ==
    LET a == RestoreAttributes(st, isDaily, now)
    IN IF a.last_value = None THEN SeedFromSource(a, src, now) ELSE a

\* What a callback hands to async_create_task.
UpdateTask(v, t) == [kind |-> "update", v |-> v, t |-> t, conc |-> tasks # <<>>]

ResetTask == [kind |-> "reset", v |-> 0, t |-> 0, conc |-> tasks # <<>>]

\* The history variable after an operation on the accumulator, and after any
\* other step.
\* kind is the operation, pre the accumulator and queued the number of pending
\* tasks before it, (v, t) the observation of an update task, conc whether the
\* task was created while another one was pending, raised whether the
\* task ended with the exception of async_write_ha_state.
Record(kind, v, t, conc) ==
    [kind |-> kind, pre |-> Acc, queued |-> Len(tasks), v |-> v, t |-> t, conc |-> conc,
     raised |-> FALSE]

NoRecord ==
    [kind |-> "none", pre |-> NewAcc, queued |-> 0, v |-> 0, t |-> 0, conc |-> FALSE,
     raised |-> FALSE]

\* --------------------------------------------------------- accumulator steps

AccInit ==
    /\ clock = StartClock
    /\ daily \in BOOLEAN
    /\ source \in SourceStates
    /\ stored = None
    /\ tasks = <<>>
    /\ midnightDue = FALSE
    /\ LET a == AddedToHass(None, daily, source, clock)
       IN /\ self_state = a.state
          /\ self_last_value = a.last_value
          /\ self_last_update = a.last_update
          /\ self_is_updating = a.is_updating
    /\ last = [NoRecord EXCEPT !.kind = "init"]

\* The source entity changes state and IntegralSensor._async_sensor_changed
\* handles the event; new_state is None when the entity is removed.
AsyncSensorChanged ==
    /\ UNCHANGED <<clientVars, fnVars>>
    /\ \E new_state \in SourceStates :
        /\ Len(tasks) < MaxQueue
        /\ source' = new_state
        /\ IF Usable(new_state) /\ ParseFloat(new_state[1]).ok
           THEN tasks' = Append(tasks, UpdateTask(ParseFloat(new_state[1]).v, clock))
           ELSE tasks' = tasks
        /\ last' = Record("changed", 0, clock, FALSE)
        /\ UNCHANGED <<clock, daily, self_state, self_last_value, self_last_update,
                       self_is_updating, midnightDue, stored>>

\* IntegralSensor._async_periodic_update
AsyncPeriodicUpdate ==
    /\ UNCHANGED <<clientVars, fnVars>>
    /\ Len(tasks) < MaxQueue
    /\ IF Usable(source) /\ ParseFloat(source[1]).ok
       THEN tasks' = Append(tasks, UpdateTask(ParseFloat(source[1]).v, clock))
       ELSE tasks' = tasks
    /\ last' = Record("periodic", 0, clock, FALSE)
    /\ UNCHANGED <<clock, daily, source, self_state, self_last_value, self_last_update,
                   self_is_updating, midnightDue, stored>>

\* Variant: the midnight callback creates no task while another is pending.
AsyncResetDaily_SkipsWhenBusy ==
    /\ UNCHANGED <<clientVars, fnVars>>
    /\ midnightDue
    /\ Len(tasks) < MaxQueue
    /\ tasks' = IF tasks = <<>> THEN Append(tasks, ResetTask) ELSE tasks
    /\ midnightDue' = FALSE
    /\ last' = NoRecord
    /\ UNCHANGED <<clock, daily, source, self_state, self_last_value, self_last_update,
                   self_is_updating, stored>>

\* DailyIntegralSensor._async_reset_daily, registered for daily sensors only.
AsyncResetDaily ==
    /\ UNCHANGED <<clientVars, fnVars>>
    /\ midnightDue
    /\ Len(tasks) < MaxQueue
    /\ tasks' = Append(tasks, ResetTask)
    /\ midnightDue' = FALSE
    /\ last' = NoRecord
    /\ UNCHANGED <<clock, daily, source, self_state, self_last_value, self_last_update,
                   self_is_updating, stored>>

\* The event loop runs the oldest pending _async_update_with_lock;
\* async_write_ha_state may raise.
RunUpdate ==
    /\ UNCHANGED <<clientVars, fnVars>>
    /\ tasks # <<>>
    /\ Head(tasks).kind = "update"
    /\ \E raised \in BOOLEAN :
        LET task == Head(tasks)
        IN /\ SetAcc(AsyncUpdateWithLock(Acc, task.v, task.t, raised))
           /\ last' = [Record(IF self_is_updating THEN "dropped" ELSE "update",
                              task.v, task.t, task.conc)
                          EXCEPT !.raised = raised /\ ~self_is_updating]
    /\ tasks' = Tail(tasks)
    /\ UNCHANGED <<clock, daily, source, midnightDue, stored>>

\* The event loop runs the oldest pending _async_reset_with_lock;
\* async_write_ha_state may raise.
RunReset ==
    /\ UNCHANGED <<clientVars, fnVars>>
    /\ tasks # <<>>
    /\ Head(tasks).kind = "reset"
    /\ \E raised \in BOOLEAN :
        /\ SetAcc(AsyncResetWithLock(Acc, source, clock, raised))
        /\ last' = [Record(IF self_is_updating THEN "dropped" ELSE "reset",
                           0, clock, Head(tasks).conc)
                       EXCEPT !.raised = raised /\ ~self_is_updating]
    /\ tasks' = Tail(tasks)
    /\ UNCHANGED <<clock, daily, source, midnightDue, stored>>

\* Variant: the midnight trigger is registered for every accumulator.
Tick_MidnightForAll ==
    /\ UNCHANGED <<clientVars, fnVars>>
    /\ tasks = <<>>
    /\ ~midnightDue
    /\ clock < MaxClock
    /\ clock' = clock + 1
    /\ midnightDue' = (LocalHour(clock + 1) = 0)
    /\ last' = NoRecord
    /\ UNCHANGED <<daily, source, self_state, self_last_value, self_last_update,
                   self_is_updating, tasks, stored>>

\* An hour passes; pending tasks run within the hour they were created in.
Tick ==
    /\ UNCHANGED <<clientVars, fnVars>>
    /\ tasks = <<>>
    /\ ~midnightDue
    /\ clock < MaxClock
    /\ clock' = clock + 1
    /\ midnightDue' = (daily /\ LocalHour(clock + 1) = 0)
    /\ last' = NoRecord
    /\ UNCHANGED <<daily, source, self_state, self_last_value, self_last_update,
                   self_is_updating, tasks, stored>>

\* The host's state-restore mechanism saves the entity's attributes.
Persist ==
    /\ UNCHANGED <<clientVars, fnVars>>
    /\ stored # Some(ExtraStateAttributes(Acc))
    /\ stored' = Some(ExtraStateAttributes(Acc))
    /\ last' = NoRecord
    /\ UNCHANGED <<clock, daily, source, self_state, self_last_value, self_last_update,
                   self_is_updating, tasks, midnightDue>>

\* The host restarts: a new object, IntegralSensor.async_added_to_hass.
Restart ==
    /\ UNCHANGED <<clientVars, fnVars>>
    /\ stored # None
    /\ SetAcc(AddedToHass(stored, daily, source, clock))
    /\ last' = [Record("restore", 0, clock, FALSE) EXCEPT !.pre = RestoreAttributes(stored, FALSE, clock)]
    /\ tasks' = <<>>
    /\ midnightDue' = FALSE
    /\ UNCHANGED <<clock, daily, source, stored>>

AccNext ==
    \/ AsyncSensorChanged
    \/ AsyncPeriodicUpdate
    \/ AsyncResetDaily
    \/ RunUpdate
    \/ RunReset
    \/ Tick
    \/ Persist
    \/ Restart


\* ================================================================ API client

\* Operations (fetchAll and commands) the model lets the client start.
MaxCalls == 3

\* const.UUIDS, in iteration order.
UUIDS == <<"user_sets", "main_data", "other_data">>

\* The operating modes of const.AeroModes; a mode is the sequence of its parts,
\* <<"ACS", "waiting", m>> standing for ACS + MODE_WAITING.format(m).
AeroIDLE == <<"IDLE">>

AeroCOOLING == <<"COOLING">>

AeroHEATING == <<"HEATING">>

AeroACS == <<"ACS">>

AeroUNKNOWN == <<"UNKNOWN">>

ModeWaiting(m) == <<"waiting">> \o m

\* The three typed errors of api.py.
AuthenticationError == "IntegrationBlueprintApiClientAuthenticationError"

CommunicationError == "IntegrationBlueprintApiClientCommunicationError"

ClientError == "IntegrationBlueprintApiClientError"

TypedErrors == {AuthenticationError, CommunicationError, ClientError}

\* dict.get(key, default) and dict.get(key, None)
Get(d, key, default) == IF key \in DOMAIN d THEN d[key] ELSE default

GetOpt(d, key) == IF key \in DOMAIN d THEN Some(d[key]) ELSE None

EmptyDict == <<>>

\* A scalar of a JSON payload, by its Python type: an int, a float (counted in
\* hundredths) or a str.
PyInt(n) == <<"int", n>>

PyFloat(h) == <<"float", h>>

PyStr(s) == <<"str", s>>

IsNumber(v) == v[1] \in {"int", "float"}

\* The number, in hundredths.
Hundredths(v) == IF v[1] = "int" THEN 100 * v[2] ELSE v[2]

\* data.get(group, {}).get("obj", {}).get("lastMeasure", {}).get(address, None)
Measure(d, group, address) ==
    GetOpt(Get(Get(Get(d, group, EmptyDict), "obj", EmptyDict), "lastMeasure", EmptyDict),
           address)

\* ------------------------------------------------------ what the backend says

Payload(lastMeasure) == ("obj" :> ("lastMeasure" :> lastMeasure))

\* lastMeasure of the main telemetry group: 103 temperature, 102 humidity.
MainMeasures ==
    { ("103" :> PyInt(20)) @@ ("102" :> PyInt(50)),
      ("103" :> PyInt(20)) @@ ("102" :> PyInt(-5)),
      EmptyDict }

\* lastMeasure of the secondary telemetry group: 134 cooling power, 133 heating
\* power, 11 ACS temperature, 5183 DG1, 170 target heating temperature,
\* 2 return temperature, 202 winter flag.
OtherMeasures ==
    { ("134" :> PyInt(0)) @@ ("133" :> PyInt(0)) @@ ("11" :> PyInt(45)) @@ ("5183" :> PyInt(0))
        @@ ("170" :> PyInt(20)) @@ ("2" :> PyInt(25)) @@ ("202" :> PyInt(1)),
      ("134" :> PyInt(5)) @@ ("133" :> PyInt(0)) @@ ("11" :> PyInt(45)) @@ ("5183" :> PyInt(0))
        @@ ("170" :> PyInt(20)) @@ ("2" :> PyInt(25)) @@ ("202" :> PyInt(0)),
      ("134" :> PyInt(0)) @@ ("133" :> PyInt(3)) @@ ("11" :> PyInt(45)) @@ ("5183" :> PyInt(1))
        @@ ("170" :> PyInt(20)) @@ ("2" :> PyInt(30)) @@ ("202" :> PyInt(1)),
      ("134" :> PyInt(-1)) @@ ("133" :> PyInt(0)) @@ ("11" :> PyInt(45)) @@ ("5183" :> PyInt(0))
        @@ ("170" :> PyInt(20)) @@ ("2" :> PyInt(25)) @@ ("202" :> PyInt(0)),
      EmptyDict }

UserMeasures == { EmptyDict }

GroupBodies(group) ==
    { Payload(m) : m \in (IF group = "main_data" THEN MainMeasures
                          ELSE IF group = "other_data" THEN OtherMeasures
                          ELSE UserMeasures) }

\* A login reply: with the token, or well-formed JSON without obj.token.
LoginBodies(token) == { ("obj" :> ("token" :> token)), ("obj" :> EmptyDict) }

CommandBodies == { ("obj" :> EmptyDict) }

\* What becomes of one request: no answer within 10 s, a transport failure, an
\* HTTP status, and for 200 a body that is JSON or not.
Responses(bodies) ==
    { [kind |-> k, status |-> 0, body |-> EmptyDict] : k \in {"timeout", "transport"} }
    \cup { [kind |-> "status", status |-> st, body |-> EmptyDict] : st \in {401, 403, 500} }
    \cup { [kind |-> "not_json", status |-> 200, body |-> EmptyDict] }
    \cup { [kind |-> "json", status |-> 200, body |-> b] : b \in bodies }

NoResponse == [kind |-> "none", status |-> 0, body |-> EmptyDict]

\* ------------------------------------------------------------ client functions

\* The exception the body of _api_wrapper's try raises on a response, "none"
\* if it returns: the timeout, session.request, _verify_response_or_raise
\* (with response.raise_for_status()), response.json().
RaisedInTry(resp) ==
    IF resp.kind = "timeout" THEN "TimeoutError"
    ELSE IF resp.kind = "transport" THEN "aiohttp.ClientError"
    ELSE IF resp.status \in {401, 403} THEN AuthenticationError
    ELSE IF resp.status >= 400 THEN "aiohttp.ClientError"
    ELSE IF resp.kind = "not_json" THEN "ValueError"
    ELSE "none"

\* Variant: the timeout is not caught by its own clause.
ExceptClauses_TimeoutUncaught(exc) ==
    IF exc \in {"aiohttp.ClientError", "socket.gaierror"} THEN CommunicationError
    ELSE ClientError

\* The except clauses of _api_wrapper, in order; the last one is
\* "except Exception" and every exception above is an Exception.
ExceptClauses(exc) ==
    IF exc = "TimeoutError" THEN CommunicationError
    ELSE IF exc \in {"aiohttp.ClientError", "socket.gaierror"} THEN CommunicationError
    ELSE ClientError

\* IntegrationBlueprintApiClient._api_wrapper: the JSON body, or the error raised.
ApiWrapper(resp) ==
    IF RaisedInTry(resp) = "none"
    THEN [raised |-> "none", value |-> resp.body]
    ELSE [raised |-> ExceptClauses(RaisedInTry(resp)), value |-> EmptyDict]

\* Variant: once a token has been issued, the first one is kept and reused.
GetToken_Cached(resp) ==
    LET token_data == ApiWrapper(resp)
    IN IF token_data.raised # "none" THEN [raised |-> token_data.raised, value |-> 0]
       ELSE IF nextToken > 1 THEN [raised |-> "none", value |-> 1]
       ELSE IF "obj" \notin DOMAIN token_data.value THEN [raised |-> "KeyError", value |-> 0]
       ELSE IF "token" \notin DOMAIN token_data.value["obj"]
            THEN [raised |-> "KeyError", value |-> 0]
       ELSE [raised |-> "none", value |-> token_data.value["obj"]["token"]]

\* IntegrationBlueprintApiClient._get_token: token_data["obj"]["token"] is
\* evaluated outside _api_wrapper.
GetToken(resp) ==
    LET token_data == ApiWrapper(resp)
    IN IF token_data.raised # "none" THEN [raised |-> token_data.raised, value |-> 0]
       ELSE IF "obj" \notin DOMAIN token_data.value THEN [raised |-> "KeyError", value |-> 0]
       ELSE IF "token" \notin DOMAIN token_data.value["obj"]
            THEN [raised |-> "KeyError", value |-> 0]
       ELSE [raised |-> "none", value |-> token_data.value["obj"]["token"]]

\* Python truthiness of an optional scalar: None, 0, 0.0 and "" are falsy.
Falsy(x) ==
    \/ x = None
    \/ IsNumber(x[1]) /\ x[1][2] = 0
    \/ x[1] = PyStr("")

\* str(x) == "1" for an optional scalar: str(1) is "1", str(1.0) is "1.0" and
\* str(None) is "None".
StrIsOne(x) == x \in {Some(PyInt(1)), Some(PyStr("1"))}

\* What a function call comes to: the value returned, or the exception raised.
Returns(v) == [raised |-> "none", value |-> v]

Raises(exc) == [raised |-> exc, value |-> None]

\* c of _get_dew_point, 243.04, in hundredths.
MagnusC == 24304

\* round(c * gamma / (b - gamma), 1) of _get_dew_point, in tenths of a degree,
\* for temperature and humidity in hundredths: the values Python computes.
MagnusTable ==
    (<<2000, 5000>> :> 93) @@ (<<2000, 10000>> :> 200) @@ (<<2000, 50>> :> -446)
    @@ (<<-1000, 5000>> :> -185) @@ (<<-1000, 10000>> :> -100) @@ (<<-1000, 50>> :> -621)
    @@ (<<2501, 5000>> :> 139) @@ (<<2501, 10000>> :> 250) @@ (<<2501, 50>> :> -417)

MagnusTenths(temp, humidity) == MagnusTable[<<temp, humidity>>]

\* Variant: only a missing input gives None.
GetDewPoint_NoneOnly(temp, humidity) ==
    IF temp = None \/ humidity = None THEN Returns(None)
    ELSE IF ~IsNumber(humidity[1]) THEN Raises("TypeError")
    ELSE IF Hundredths(humidity[1]) <= 0 THEN Raises("ValueError")
    ELSE IF ~IsNumber(temp[1]) THEN Raises("TypeError")
    ELSE IF MagnusC + Hundredths(temp[1]) = 0 THEN Raises("ZeroDivisionError")
    ELSE IF <<Hundredths(temp[1]), Hundredths(humidity[1])>> \notin DOMAIN MagnusTable
         THEN Returns(Some(0))
    ELSE Returns(Some(MagnusTenths(Hundredths(temp[1]), Hundredths(humidity[1]))))

\* IntegrationBlueprintApiClient._get_dew_point.  log(humidity / 100) is
\* evaluated first: a str raises TypeError and a negative number ValueError;
\* then b * temp raises TypeError on a str and the division by c + temp
\* raises ZeroDivisionError at -243.04.
GetDewPoint(temp, humidity) ==
    IF Falsy(temp) \/ Falsy(humidity) THEN Returns(None)
    ELSE IF ~IsNumber(humidity[1]) THEN Raises("TypeError")
    ELSE IF Hundredths(humidity[1]) < 0 THEN Raises("ValueError")
    ELSE IF ~IsNumber(temp[1]) THEN Raises("TypeError")
    ELSE IF MagnusC + Hundredths(temp[1]) = 0 THEN Raises("ZeroDivisionError")
    ELSE Returns(Some(MagnusTenths(Hundredths(temp[1]), Hundredths(humidity[1]))))

\* Variant: the ACS temperature is not among the required readings.
MissingRequired_WithoutAcs(pot_cool, pot_heat, acs_now, target_heat, temp_return) ==
    \/ pot_cool = None
    \/ pot_heat = None
    \/ target_heat = None
    \/ temp_return = None

\* Lines 193-200 of _get_aero_state: a required reading is None.
MissingRequired(pot_cool, pot_heat, acs_now, target_heat, temp_return) ==
    \/ pot_cool = None
    \/ pot_heat = None
    \/ acs_now = None
    \/ target_heat = None
    \/ temp_return = None

\* The 5 degrees of "temp_return > target_heat + 5".
AcsMargin == 5

\* Variant: the threshold is reached, not exceeded.
HeatingOrAcs_AtThreshold(temp_return, target_heat, dg1_active, is_winter) ==
    IF ~IsNumber(target_heat[1]) \/ ~IsNumber(temp_return[1]) THEN Raises("TypeError")
    ELSE IF Hundredths(temp_return[1]) >= Hundredths(target_heat[1]) + 100 * AcsMargin
    THEN IF dg1_active
         THEN Returns(AeroACS \o ModeWaiting(IF ~Falsy(is_winter) THEN AeroHEATING
                                             ELSE AeroCOOLING))
         ELSE Returns(AeroACS)
    ELSE Returns(AeroHEATING)

\* Lines 209-223 of _get_aero_state, the branch of pot_heat > 0: a str in
\* "target_heat + 5" or in the comparison raises TypeError.
HeatingOrAcs(temp_return, target_heat, dg1_active, is_winter) ==
    IF ~IsNumber(target_heat[1]) \/ ~IsNumber(temp_return[1]) THEN Raises("TypeError")
    ELSE IF Hundredths(temp_return[1]) > Hundredths(target_heat[1]) + 100 * AcsMargin
    THEN IF dg1_active
         THEN Returns(AeroACS \o ModeWaiting(IF ~Falsy(is_winter) THEN AeroHEATING
                                             ELSE AeroCOOLING))
         ELSE Returns(AeroACS)
    ELSE Returns(AeroHEATING)

\* Variant: no power above 0 counts as no energy.
BothZero_NeitherPositive(pot_cool, pot_heat) ==
    /\ IsNumber(pot_cool) /\ Hundredths(pot_cool) <= 0
    /\ IsNumber(pot_heat) /\ Hundredths(pot_heat) <= 0

\* Line 205 of _get_aero_state: pot_cool == 0 and pot_heat == 0, which is
\* False for a str.
BothZero(pot_cool, pot_heat) ==
    pot_cool \in {PyInt(0), PyFloat(0)} /\ pot_heat \in {PyInt(0), PyFloat(0)}

\* Variant: heating power is looked at before cooling power.
GetAeroState_HeatingFirst(d, prev_data) ==
    IF prev_data = None \/ d = None THEN Returns(AeroIDLE)
    ELSE
    LET pot_cool == Measure(d[1], "other_data", "134")
        pot_heat == Measure(d[1], "other_data", "133")
        acs_now == Measure(d[1], "other_data", "11")
        is_winter == Measure(d[1], "other_data", "202")
        dg1 == Measure(d[1], "other_data", "5183")
        target_heat == Measure(d[1], "other_data", "170")
        temp_return == Measure(d[1], "other_data", "2")
        dg1_active == StrIsOne(dg1)
    IN IF MissingRequired(pot_cool, pot_heat, acs_now, target_heat, temp_return)
       THEN Returns(AeroIDLE)
       ELSE IF BothZero(pot_cool[1], pot_heat[1])
       THEN Returns(AeroIDLE)
       ELSE IF ~IsNumber(pot_heat[1]) THEN Raises("TypeError")
       ELSE IF Hundredths(pot_heat[1]) > 0
       THEN HeatingOrAcs(temp_return, target_heat, dg1_active, is_winter)
       ELSE IF ~IsNumber(pot_cool[1]) THEN Raises("TypeError")
       ELSE IF Hundredths(pot_cool[1]) > 0 THEN Returns(AeroCOOLING)
       ELSE Returns(AeroUNKNOWN)

\* IntegrationBlueprintApiClient._get_aero_state; d and prev_data are None or a
\* dict.  "x == 0" is False for a str, "x > 0" raises TypeError for one.
GetAeroState(d, prev_data) ==
    IF prev_data = None \/ d = None THEN Returns(AeroIDLE)
    ELSE
    LET pot_cool == Measure(d[1], "other_data", "134")
        pot_heat == Measure(d[1], "other_data", "133")
        acs_now == Measure(d[1], "other_data", "11")
        is_winter == Measure(d[1], "other_data", "202")
        dg1 == Measure(d[1], "other_data", "5183")
        target_heat == Measure(d[1], "other_data", "170")
        temp_return == Measure(d[1], "other_data", "2")
        dg1_active == StrIsOne(dg1)
    IN IF MissingRequired(pot_cool, pot_heat, acs_now, target_heat, temp_return)
       THEN Returns(AeroIDLE)
       ELSE IF BothZero(pot_cool[1], pot_heat[1])
       THEN Returns(AeroIDLE)
       ELSE IF ~IsNumber(pot_cool[1]) THEN Raises("TypeError")
       ELSE IF Hundredths(pot_cool[1]) > 0 THEN Returns(AeroCOOLING)
       ELSE IF ~IsNumber(pot_heat[1]) THEN Raises("TypeError")
       ELSE IF Hundredths(pot_heat[1]) > 0
       THEN HeatingOrAcs(temp_return, target_heat, dg1_active, is_winter)
       ELSE Returns(AeroUNKNOWN)

\* Variant: UNKNOWN counts as not active.
ActiveFlag_UnknownInactive(mode) ==
    IF mode \in {AeroIDLE, AeroUNKNOWN} THEN PyInt(0) ELSE PyInt(1)

\* Lines 103-109 of async_get_data: 0 if the mode is IDLE else 1.
ActiveFlag(mode) == IF mode = AeroIDLE THEN PyInt(0) ELSE PyInt(1)

\* Variant: the calc_data group without the active flag.
Enrich_WithoutFlag(d, current) ==
    LET temp == Measure(d, "main_data", "103")
        humidity == Measure(d, "main_data", "102")
        dew == GetDewPoint(temp, humidity)
        mode == GetAeroState(Some(d), current)
        calc == ("0000" :> dew.value)
                @@ ("0001" :> mode.value)
    IN IF dew.raised # "none" THEN Raises(dew.raised)
       ELSE IF mode.raised # "none" THEN Raises(mode.raised)
       ELSE Returns(d @@ ("calc_data" :> Payload(calc)))

\* Lines 82-109 of async_get_data: the calc_data group added to the fetched
\* dict, dew point first; an exception of either function leaves the method.
Enrich(d, current) ==
    LET temp == Measure(d, "main_data", "103")
        humidity == Measure(d, "main_data", "102")
        dew == GetDewPoint(temp, humidity)
        mode == GetAeroState(Some(d), current)
        calc == ("0000" :> dew.value)
                @@ ("0001" :> mode.value)
                @@ ("0002" :> ActiveFlag(mode.value))
    IN IF dew.raised # "none" THEN Raises(dew.raised)
       ELSE IF mode.raised # "none" THEN Raises(mode.raised)
       ELSE Returns(d @@ ("calc_data" :> Payload(calc)))

\* Variant: the two assignments in the other order.
Publish_DataFirst(d, current, previous) == [data |-> Some(d), prev_data |-> Some(d)]

\* Lines 111-112 of async_get_data: the new pair (_data, _prev_data).
Publish(d, current, previous) == [data |-> Some(d), prev_data |-> current]


Request(url, token) == [url |-> url, auth |-> token]

\* ------------------------------------------------------------ the coordinator

\* The update coordinator the entities subscribe to, before its first poll.
\* failures counts the failed polls since the last success and cleared is
\* the count the last success set back to zero (both history).
NewCoordinator ==
    [data |-> None, last_update_success |-> TRUE, polling |-> TRUE,
     failures |-> 0, cleared |-> 0]

\* A poll has returned a snapshot: it is published and the error is cleared.
UpdateSucceeded(c, snapshot) ==
    [c EXCEPT !.data = Some(snapshot), !.last_update_success = TRUE,
              !.failures = 0, !.cleared = c.failures]

\* Variant: a failed poll cancels the interval timer.
UpdateFailed_StopsPolling(c, exc) ==
    [c EXCEPT !.last_update_success = FALSE, !.failures = c.failures + 1,
              !.polling = FALSE]

\* A poll has raised exc: the snapshot is kept, the error is reported and the
\* interval timer stays armed.
UpdateFailed(c, exc) ==
    [c EXCEPT !.last_update_success = FALSE, !.failures = c.failures + 1]

\* The delay, in seconds, of async_call_later(self.hass, 5, self._scheduled_refresh).
RefreshDelay == 5

\* async_call_later(hass, delay, action)
AsyncCallLater(pending, delay, action) ==
    Append(pending, [delay |-> delay, action |-> action])

\* ---------------------------------------------------------------- the sensors

\* Data points of the tuple sensors: room temperature and humidity, heating
\* and cooling power, and one the backend of this model never reports.
sensors ==
    { [uuid_name |-> "main_data", address |-> "103"],
      [uuid_name |-> "main_data", address |-> "102"],
      [uuid_name |-> "other_data", address |-> "133"],
      [uuid_name |-> "other_data", address |-> "134"],
      [uuid_name |-> "other_data", address |-> "1"] }

\* Data points of the derived values: dew point, operating mode, active flag.
calc_sensors ==
    { [uuid_name |-> "calc_data", address |-> "0000"],
      [uuid_name |-> "calc_data", address |-> "0001"],
      [uuid_name |-> "calc_data", address |-> "0002"] }

\* IntegrationBlueprintSensor._get_sensor_data: None without a snapshot, for
\* an address that is not there and for one that holds None.
GetSensorData(c, sensor_data) ==
    IF c.data = None THEN None
    ELSE LET value == Measure(c.data[1], sensor_data.uuid_name, sensor_data.address)
         IN IF value # None /\ value[1] = None THEN None ELSE value

\* Variant: availability looks at the snapshot only.
Available_IgnoresSuccess(c, sensor_data) == GetSensorData(c, sensor_data) # None

\* IntegrationBlueprintSensor.available
Available(c, sensor_data) ==
    IF ~c.last_update_success THEN FALSE
    ELSE GetSensorData(c, sensor_data) # None

\* ---------------------------------------------------------------- client steps

\* Variant: the client starts with an empty dict as its snapshot.
ClientInit_EmptySnapshot ==
    /\ self_data = Some(EmptyDict)
    /\ self_prev_data = None
    /\ op = "none"
    /\ pc = "idle"
    /\ data = EmptyDict
    /\ auth = None
    /\ outcome = "none"
    /\ sent = <<>>
    /\ nextToken = 1
    /\ calls = 0
    /\ lastResp = NoResponse
    /\ atStart = [data |-> None, prev_data |-> None]
    /\ published = <<>>
    /\ coordinator = NewCoordinator
    /\ timers = <<>>

\* IntegrationBlueprintApiClient.__init__
ClientInit ==
    /\ self_data = None
    /\ self_prev_data = None
    /\ op = "none"
    /\ pc = "idle"
    /\ data = EmptyDict
    /\ auth = None
    /\ outcome = "none"
    /\ sent = <<>>
    /\ nextToken = 1
    /\ calls = 0
    /\ lastResp = NoResponse
    /\ atStart = [data |-> None, prev_data |-> None]
    /\ published = <<>>
    /\ coordinator = NewCoordinator
    /\ timers = <<>>

\* An operation starts and runs to its first await, the login request of
\* _get_token: async_get_data, _switch (async_switch_on / async_switch_off)
\* or async_update_number.
StartOperation(name) ==
    /\ calls' = calls + 1
    /\ op' = name
    /\ pc' = "login"
    /\ data' = EmptyDict
    /\ auth' = None
    /\ outcome' = "none"
    /\ sent' = <<Request("login", None)>>
    /\ lastResp' = NoResponse
    /\ atStart' = [data |-> self_data, prev_data |-> self_prev_data]
    /\ UNCHANGED <<self_data, self_prev_data, nextToken, published, coordinator>>

\* The coordinator's interval timer expires and it calls
\* IntegrationBlueprintApiClient.async_get_data.
AsyncGetData ==
    /\ UNCHANGED <<accVars, fnVars>>
    /\ pc = "idle"
    /\ calls < MaxCalls
    /\ coordinator.polling
    /\ StartOperation("async_get_data")
    /\ timers' = timers

\* A switch entity's async_turn_on or async_turn_off calls async_switch_on or
\* async_switch_off, that is IntegrationBlueprintApiClient._switch.
Switch ==
    /\ UNCHANGED <<accVars, fnVars>>
    /\ pc = "idle"
    /\ calls < MaxCalls
    /\ StartOperation("_switch")
    /\ timers' = timers

\* A number entity's async_set_native_value calls
\* IntegrationBlueprintApiClient.async_update_number.
AsyncUpdateNumber ==
    /\ UNCHANGED <<accVars, fnVars>>
    /\ pc = "idle"
    /\ calls < MaxCalls
    /\ StartOperation("async_update_number")
    /\ timers' = timers

\* The operation ends by raising exc; a poll of the coordinator has failed.
Raise(exc) ==
    /\ pc' = "idle"
    /\ outcome' = exc
    /\ coordinator' = IF op = "async_get_data" THEN UpdateFailed(coordinator, exc)
                      ELSE coordinator
    /\ UNCHANGED <<self_data, self_prev_data, data, auth, sent, published, timers>>

\* The login request is answered; on a token the operation issues its next
\* request, the first group fetch or the command.
LoginAnswered ==
    /\ UNCHANGED <<accVars, fnVars>>
    /\ pc = "login"
    /\ \E resp \in Responses(LoginBodies(nextToken)) :
        LET token == GetToken(resp)
        IN /\ lastResp' = resp
           /\ nextToken' = IF resp.kind = "json" THEN nextToken + 1 ELSE nextToken
           /\ IF token.raised # "none"
              THEN Raise(token.raised)
              ELSE /\ auth' = Some(token.value)
                   /\ pc' = IF op = "async_get_data" THEN "fetch" ELSE "command"
                   /\ sent' = Append(sent, Request(IF op = "async_get_data" THEN "get"
                                                   ELSE "command", Some(token.value)))
                   /\ UNCHANGED <<self_data, self_prev_data, data, outcome, published,
                                  coordinator, timers>>
    /\ UNCHANGED <<op, calls, atStart>>

\* Variant: each group is stored into _data as soon as it is fetched.
FetchAnswered_StoresEachGroup ==
    /\ UNCHANGED <<accVars, fnVars>>
    /\ pc = "fetch"
    /\ LET uuid_name == UUIDS[Cardinality(DOMAIN data) + 1]
       IN \E resp \in Responses(GroupBodies(uuid_name)) :
            LET answer == ApiWrapper(resp)
                fetched == data @@ (uuid_name :> answer.value)
                complete == Cardinality(DOMAIN fetched) = Len(UUIDS)
                enriched == Enrich(fetched, self_prev_data)
            IN /\ lastResp' = resp
               /\ IF answer.raised # "none"
                  THEN Raise(answer.raised)
                  ELSE IF complete /\ enriched.raised # "none"
                  THEN /\ data' = fetched
                       /\ pc' = "idle"
                       /\ outcome' = enriched.raised
                       /\ coordinator' = UpdateFailed(coordinator, enriched.raised)
                       /\ UNCHANGED <<self_data, self_prev_data, auth, sent, published,
                                      timers>>
                  ELSE IF complete
                  THEN /\ self_data' = Some(enriched.value)
                       /\ published' = Append(published, enriched.value)
                       /\ coordinator' = UpdateSucceeded(coordinator, enriched.value)
                       /\ data' = fetched
                       /\ pc' = "idle"
                       /\ outcome' = "ok"
                       /\ UNCHANGED <<self_prev_data, auth, sent, timers>>
                  ELSE /\ data' = fetched
                       /\ self_data' = Some(fetched)
                       /\ self_prev_data' = IF Cardinality(DOMAIN fetched) = 1
                                            THEN self_data ELSE self_prev_data
                       /\ sent' = Append(sent, Request("get", auth))
                       /\ UNCHANGED <<pc, outcome, auth, published, coordinator, timers>>
    /\ UNCHANGED <<op, nextToken, calls, atStart>>

\* A group fetch of async_get_data is answered: the next group is requested,
\* or after the last one the dict is enriched and published, unless the
\* enrichment raises; the coordinator takes the snapshot or the failure.
FetchAnswered ==
    /\ UNCHANGED <<accVars, fnVars>>
    /\ pc = "fetch"
    /\ LET uuid_name == UUIDS[Cardinality(DOMAIN data) + 1]
       IN \E resp \in Responses(GroupBodies(uuid_name)) :
            LET answer == ApiWrapper(resp)
                fetched == data @@ (uuid_name :> answer.value)
                complete == Cardinality(DOMAIN fetched) = Len(UUIDS)
                enriched == Enrich(fetched, self_data)
                new == Publish(enriched.value, self_data, self_prev_data)
            IN /\ lastResp' = resp
               /\ IF answer.raised # "none"
                  THEN Raise(answer.raised)
                  ELSE IF complete /\ enriched.raised # "none"
                  THEN /\ data' = fetched
                       /\ pc' = "idle"
                       /\ outcome' = enriched.raised
                       /\ coordinator' = UpdateFailed(coordinator, enriched.raised)
                       /\ UNCHANGED <<self_data, self_prev_data, auth, sent, published,
                                      timers>>
                  ELSE IF complete
                  THEN /\ self_data' = new.data
                       /\ self_prev_data' = new.prev_data
                       /\ published' = Append(published, enriched.value)
                       /\ coordinator' = UpdateSucceeded(coordinator, enriched.value)
                       /\ data' = fetched
                       /\ pc' = "idle"
                       /\ outcome' = "ok"
                       /\ UNCHANGED <<auth, sent, timers>>
                  ELSE /\ data' = fetched
                       /\ sent' = Append(sent, Request("get", auth))
                       /\ UNCHANGED <<self_data, self_prev_data, pc, outcome, auth,
                                      published, coordinator, timers>>
    /\ UNCHANGED <<op, nextToken, calls, atStart>>

\* Variant: the refresh is scheduled in a finally clause.
CommandAnswered_SchedulesAlways ==
    /\ UNCHANGED <<accVars, fnVars>>
    /\ pc = "command"
    /\ \E resp \in Responses(CommandBodies) :
        LET answer == ApiWrapper(resp)
        IN /\ lastResp' = resp
           /\ pc' = "idle"
           /\ outcome' = IF answer.raised # "none" THEN answer.raised ELSE "ok"
           /\ timers' = AsyncCallLater(timers, RefreshDelay, "_scheduled_refresh")
           /\ UNCHANGED <<self_data, self_prev_data, data, auth, sent, published,
                          coordinator>>
    /\ UNCHANGED <<op, nextToken, calls, atStart>>

\* The command request of _switch or async_update_number is answered; when it
\* returns, the entity's async_turn_on, async_turn_off or
\* async_set_native_value calls async_call_later and returns.
CommandAnswered ==
    /\ UNCHANGED <<accVars, fnVars>>
    /\ pc = "command"
    /\ \E resp \in Responses(CommandBodies) :
        LET answer == ApiWrapper(resp)
        IN /\ lastResp' = resp
           /\ IF answer.raised # "none"
              THEN Raise(answer.raised)
              ELSE /\ pc' = "idle"
                   /\ outcome' = "ok"
                   /\ timers' = AsyncCallLater(timers, RefreshDelay, "_scheduled_refresh")
                   /\ UNCHANGED <<self_data, self_prev_data, data, auth, sent, published,
                                  coordinator>>
    /\ UNCHANGED <<op, nextToken, calls, atStart>>

\* A timer of async_call_later expires and _scheduled_refresh awaits
\* coordinator.async_request_refresh(): the coordinator calls async_get_data,
\* unless a poll is in flight, which the request is coalesced with.
ScheduledRefresh ==
    /\ UNCHANGED <<accVars, fnVars>>
    /\ timers # <<>>
    /\ \/ pc = "idle" /\ calls < MaxCalls
       \/ pc # "idle" /\ op = "async_get_data"
    /\ timers' = Tail(timers)
    /\ IF pc = "idle"
       THEN StartOperation("async_get_data")
       ELSE UNCHANGED <<self_data, self_prev_data, op, pc, data, auth, outcome, sent,
                        nextToken, calls, lastResp, atStart, published, coordinator>>

ClientNext ==
    \/ AsyncGetData
    \/ Switch
    \/ AsyncUpdateNumber
    \/ LoginAnswered
    \/ FetchAnswered
    \/ CommandAnswered
    \/ ScheduledRefresh

\* ------------------------------------------------------------ function calls

\* No function is called on its own.
NoCall == called = None /\ returned = None

\* The readings a call of _get_aero_state may find at each address of
\* other_data; None: the address is absent.
CoolingPowers == {None, Some(PyInt(-1)), Some(PyInt(0)), Some(PyInt(5)), Some(PyStr("abc"))}

HeatingPowers ==
    {None, Some(PyInt(-1)), Some(PyInt(0)), Some(PyInt(3)), Some(PyStr("abc"))}

AcsTemps == {None, Some(PyInt(45))}

TargetTemps == {None, Some(PyInt(20)), Some(PyStr("abc"))}

ReturnTemps == {None, Some(PyInt(25)), Some(PyFloat(2501)), Some(PyInt(30))}

Dg1Flags == {None, Some(PyInt(0)), Some(PyInt(1)), Some(PyStr("1")), Some(PyFloat(100))}

WinterFlags == {None, Some(PyInt(0)), Some(PyInt(1))}

\* The lastMeasure dict with the readings that are there.
LastMeasure(readings) ==
    [address \in {a \in DOMAIN readings : readings[a] # None} |-> readings[address][1]]

OtherData ==
    { ("other_data" :> Payload(LastMeasure(
          ("134" :> pot_cool) @@ ("133" :> pot_heat) @@ ("11" :> acs_now)
          @@ ("170" :> target_heat) @@ ("2" :> temp_return) @@ ("5183" :> dg1)
          @@ ("202" :> is_winter)))) :
        pot_cool \in CoolingPowers, pot_heat \in HeatingPowers, acs_now \in AcsTemps,
        target_heat \in TargetTemps, temp_return \in ReturnTemps, dg1 \in Dg1Flags,
        is_winter \in WinterFlags }

\* The calls _get_aero_state(data, prev_data): each argument None or a dict.
AeroCalls ==
    { [fn |-> "_get_aero_state", data |-> d, prev_data |-> prev] :
        d \in {None} \cup {Some(o) : o \in OtherData},
        prev \in {None, Some("other_data" :> Payload(EmptyDict))} }

\* Temperatures and humidities a call of _get_dew_point may be given.
DewTemps ==
    {None, Some(PyInt(0)), Some(PyInt(20)), Some(PyInt(-10)), Some(PyFloat(2501)),
     Some(PyFloat(-MagnusC)), Some(PyStr("abc")), Some(PyStr(""))}

DewHumidities ==
    {None, Some(PyInt(0)), Some(PyInt(50)), Some(PyInt(100)), Some(PyFloat(50)),
     Some(PyInt(-5)), Some(PyStr("abc"))}

\* The calls _get_dew_point(temp, humidity).
DewCalls ==
    { [fn |-> "_get_dew_point", temp |-> t, humidity |-> h] :
        t \in DewTemps, h \in DewHumidities }

\* Accumulators _update_integral may be called on, new or with an observation
\* on record, and the observations it may be given; a source reports any
\* float, negative ones included.
IntegralCalls ==
    { [fn |-> "_update_integral", acc |-> a, current_value |-> v, current_time |-> t] :
        a \in {NewAcc} \cup { [NewAcc EXCEPT !.state = total, !.last_value = Some(lv),
                                             !.last_update = Some(StartClock)] :
                                total \in {0, 10 * StateScale}, lv \in {10, -10} },
        v \in {10, 20, -10},
        t \in StartClock..MaxClock }

SecondsPerMinute == 60

SecondsPerDay == HoursPerDay * SecondsPerMinute * SecondsPerMinute

Max(a, b) == IF a >= b THEN a ELSE b

\* timedelta.seconds of a non-negative timedelta of td whole seconds: the
\* seconds within the day, the whole days being held in timedelta.days.
TimedeltaSeconds(td) == td % SecondsPerDay

\* The minutes between two periodic updates for a coordinator polling every
\* update_interval seconds.
IntervalMins(update_interval) ==
    Max(TimedeltaSeconds(update_interval) \div SecondsPerMinute, 1)

\* Poll intervals a coordinator may be configured with, in seconds.
UpdateIntervals ==
    {30, 59, 60, 90, 119, 300, 3600, SecondsPerDay - 1, SecondsPerDay,
     SecondsPerDay + 90, 2 * SecondsPerDay}

\* The calls of _on_start_func_register beside a coordinator polling at a
\* configured interval.
IntervalCalls ==
    { [fn |-> "_on_start_func_register", update_interval |-> td] :
        td \in UpdateIntervals }

\* Variant: only the lower bound is applied.
NativeValue_NoUpperClamp(value, sensor_data) ==
    IF value = None THEN Returns(None)
    ELSE LET clamp_min == sensor_data.clamp_min
             clamp_max == sensor_data.clamp_max
         IN IF clamp_min # None /\ ~IsNumber(value[1]) THEN Raises("TypeError")
            ELSE IF clamp_min # None /\ Hundredths(value[1]) < Hundredths(clamp_min[1])
            THEN Returns(clamp_min)
            ELSE Returns(value)

\* IntegrationBlueprintSensor.native_value on the value _get_sensor_data
\* returned; comparing a str with a bound raises TypeError.
NativeValue(value, sensor_data) ==
    IF value = None THEN Returns(None)
    ELSE LET clamp_min == sensor_data.clamp_min
             clamp_max == sensor_data.clamp_max
         IN IF clamp_min # None /\ ~IsNumber(value[1]) THEN Raises("TypeError")
            ELSE IF clamp_min # None /\ Hundredths(value[1]) < Hundredths(clamp_min[1])
            THEN Returns(clamp_min)
            ELSE IF clamp_max # None /\ ~IsNumber(value[1]) THEN Raises("TypeError")
            ELSE IF clamp_max # None /\ Hundredths(value[1]) > Hundredths(clamp_max[1])
            THEN Returns(clamp_max)
            ELSE Returns(value)

\* Values _get_sensor_data may return to native_value.
RawValues ==
    {None, Some(PyInt(-5)), Some(PyFloat(-1)), Some(PyInt(0)), Some(PyInt(50)),
     Some(PyInt(100)), Some(PyFloat(10001)), Some(PyInt(150)), Some(PyStr("abc"))}

\* The clamp bounds of a data point: each unset or a number, the lower one
\* not above the upper one.
ClampBounds ==
    { [clamp_min |-> lo, clamp_max |-> hi] :
        lo \in {None, Some(PyInt(0))}, hi \in {None, Some(PyInt(100)), Some(PyInt(0))} }

\* The reads of native_value.
NativeValueCalls ==
    { [fn |-> "native_value", value |-> v, sensor_data |-> b] :
        v \in RawValues, b \in ClampBounds }

\* Data points of the tuples switches, numbers and binary_sensors.
switches ==
    { [uuid_name |-> "user_sets", address |-> "0100"],
      [uuid_name |-> "user_sets", address |-> "0000"] }

numbers ==
    { [uuid_name |-> "user_sets", address |-> "1100"],
      [uuid_name |-> "user_sets", address |-> "1101"] }

binary_sensors ==
    { [uuid_name |-> "user_sets", address |-> "1800"],
      [uuid_name |-> "other_data", address |-> "201"] }

\* key = f"{elem.uuid_name}--{elem.address}": the two texts, in this order.
EntityKey(elem) == <<elem.uuid_name, elem.address>>

\* uuid, address = key.split("--")
SplitKey(key) == [uuid |-> key[1], address |-> key[2]]

\* IntegrationBlueprintSwitch.is_on: coordinator.data.get(uuid, {}) is an
\* attribute access on None, an AttributeError, when there is no snapshot.
SwitchIsOn(c, key) ==
    IF c.data = None THEN Raises("AttributeError")
    ELSE Returns(Measure(c.data[1], SplitKey(key).uuid, SplitKey(key).address))

\* IntegrationBlueprintBinarySensor.is_on
BinarySensorIsOn(c, key) ==
    IF c.data = None THEN Raises("AttributeError")
    ELSE Returns(Measure(c.data[1], SplitKey(key).uuid, SplitKey(key).address))

\* SunthalpyNumber.native_value
NumberNativeValue(c, key) ==
    IF c.data = None THEN Raises("AttributeError")
    ELSE Returns(Measure(c.data[1], SplitKey(key).uuid, SplitKey(key).address))

\* IntegrationBlueprintSensor.native_value on a coordinator: the value of
\* _get_sensor_data, clamped.
SensorNativeValue(c, sensor_data) ==
    NativeValue(GetSensorData(c, sensor_data), sensor_data)

\* What coordinator.data may be when an entity is read: None before the first
\* snapshot, a snapshot without groups, or one with readings.
CoordinatorData ==
    { None,
      Some(EmptyDict),
      Some(("user_sets" :> Payload(("0100" :> PyInt(1)) @@ ("1100" :> PyInt(21))))
           @@ ("main_data" :> Payload(("103" :> PyInt(20)) @@ ("102" :> PyInt(150))))
           @@ ("other_data" :> Payload("201" :> PyInt(1)))) }

\* Coordinators holding that data, after a success or a failure.
Coordinators ==
    { [NewCoordinator EXCEPT !.data = d, !.last_update_success = ok] :
        d \in CoordinatorData, ok \in BOOLEAN }

\* The reads of an entity's value: is_on of a switch or a binary sensor,
\* native_value of a number or a sensor.
SwitchReads ==
    { [fn |-> "switch.is_on", coordinator |-> c, key |-> EntityKey(elem)] :
        c \in Coordinators, elem \in switches }

BinarySensorReads ==
    { [fn |-> "binary_sensor.is_on", coordinator |-> c, key |-> EntityKey(elem)] :
        c \in Coordinators, elem \in binary_sensors }

NumberReads ==
    { [fn |-> "number.native_value", coordinator |-> c, key |-> EntityKey(elem)] :
        c \in Coordinators, elem \in numbers }

SensorReads ==
    { [fn |-> "sensor.native_value", coordinator |-> c,
       sensor_data |-> [uuid_name |-> elem.uuid_name, address |-> elem.address,
                        clamp_min |-> b.clamp_min, clamp_max |-> b.clamp_max]] :
        c \in Coordinators, elem \in sensors, b \in ClampBounds }

\* One call of a function, about to be evaluated.
DeriveInit ==
    /\ \/ called \in {Some(c) : c \in AeroCalls}
       \/ called \in {Some(c) : c \in DewCalls}
       \/ called \in {Some(c) : c \in IntegralCalls}
       \/ called \in {Some(c) : c \in IntervalCalls}
       \/ called \in {Some(c) : c \in NativeValueCalls}
       \/ called \in {Some(c) : c \in SwitchReads}
       \/ called \in {Some(c) : c \in BinarySensorReads}
       \/ called \in {Some(c) : c \in NumberReads}
       \/ called \in {Some(c) : c \in SensorReads}
    /\ returned = None

\* _get_aero_state runs on its arguments.
CallGetAeroState ==
    /\ UNCHANGED <<accVars, clientVars>>
    /\ called # None
    /\ returned = None
    /\ called[1].fn = "_get_aero_state"
    /\ returned' = Some(GetAeroState(called[1].data, called[1].prev_data))
    /\ called' = called

\* _get_dew_point runs on its arguments.
CallGetDewPoint ==
    /\ UNCHANGED <<accVars, clientVars>>
    /\ called # None
    /\ returned = None
    /\ called[1].fn = "_get_dew_point"
    /\ returned' = Some(GetDewPoint(called[1].temp, called[1].humidity))
    /\ called' = called

\* _update_integral runs on an accumulator and an observation.
CallUpdateIntegral ==
    /\ UNCHANGED <<accVars, clientVars>>
    /\ called # None
    /\ returned = None
    /\ called[1].fn = "_update_integral"
    /\ returned' = Some(UpdateIntegral(called[1].acc, called[1].current_value,
                                       called[1].current_time))
    /\ called' = called

\* _on_start_func_register computes the interval of the periodic update.
CallOnStartFuncRegister ==
    /\ UNCHANGED <<accVars, clientVars>>
    /\ called # None
    /\ returned = None
    /\ called[1].fn = "_on_start_func_register"
    /\ returned' = Some(IntervalMins(called[1].update_interval))
    /\ called' = called

\* native_value is read.
CallNativeValue ==
    /\ UNCHANGED <<accVars, clientVars>>
    /\ called # None
    /\ returned = None
    /\ called[1].fn = "native_value"
    /\ returned' = Some(NativeValue(called[1].value, called[1].sensor_data))
    /\ called' = called

\* is_on of a switch is read.
CallSwitchIsOn ==
    /\ UNCHANGED <<accVars, clientVars>>
    /\ called # None
    /\ returned = None
    /\ called[1].fn = "switch.is_on"
    /\ returned' = Some(SwitchIsOn(called[1].coordinator, called[1].key))
    /\ called' = called

\* is_on of a binary sensor is read.
CallBinarySensorIsOn ==
    /\ UNCHANGED <<accVars, clientVars>>
    /\ called # None
    /\ returned = None
    /\ called[1].fn = "binary_sensor.is_on"
    /\ returned' = Some(BinarySensorIsOn(called[1].coordinator, called[1].key))
    /\ called' = called

\* native_value of a number is read.
CallNumberNativeValue ==
    /\ UNCHANGED <<accVars, clientVars>>
    /\ called # None
    /\ returned = None
    /\ called[1].fn = "number.native_value"
    /\ returned' = Some(NumberNativeValue(called[1].coordinator, called[1].key))
    /\ called' = called

\* native_value of a sensor is read from its coordinator.
CallSensorNativeValue ==
    /\ UNCHANGED <<accVars, clientVars>>
    /\ called # None
    /\ returned = None
    /\ called[1].fn = "sensor.native_value"
    /\ returned' = Some(SensorNativeValue(called[1].coordinator, called[1].sensor_data))
    /\ called' = called

DeriveNext ==
    \/ CallSwitchIsOn
    \/ CallBinarySensorIsOn
    \/ CallNumberNativeValue
    \/ CallSensorNativeValue
    \/ CallNativeValue
    \/ CallOnStartFuncRegister
    \/ CallGetAeroState
    \/ CallGetDewPoint
    \/ CallUpdateIntegral

\* ------------------------------------------------------------- specifications

\* The accumulator of one entity, beside a client that is not called.
InitAcc == AccInit /\ ClientInit /\ NoCall

SpecAcc == InitAcc /\ [][AccNext]_vars

\* The client, beside an accumulator on a source that never reports.
InitClient == AccInit /\ daily = FALSE /\ source = None /\ ClientInit /\ NoCall

SpecClient == InitClient /\ [][ClientNext]_vars

\* One call of _get_aero_state, _get_dew_point or _update_integral on the
\* arguments drawn, beside an idle client and accumulator.
InitDerive == AccInit /\ daily = FALSE /\ source = None /\ ClientInit /\ DeriveInit

SpecDerive == InitDerive /\ [][DeriveNext]_vars

\* ====================================================================== claims

Numeric(st) == st # None /\ st[1] \in NumericStates

NumberOf(st) == IF st = Some("10") THEN 10 ELSE 20

Groups == {UUIDS[i] : i \in 1..Len(UUIDS)}

\* A snapshot with the three groups and the calc group.
Complete(snap) == DOMAIN snap = Groups \cup {"calc_data"}

FetchFailed == op = "async_get_data" /\ pc = "idle" /\ outcome \notin {"ok", "none"}

\* C1: while async_get_data is in flight and after it has failed, at the login
\* or at any group fetch, _data and _prev_data are what they were when the
\* call started; and every snapshot stored or returned holds all the groups.
C1_FailedFetchKeepsSnapshots ==
    /\ (op = "async_get_data" /\ (pc # "idle" \/ FetchFailed))
          => (self_data = atStart.data /\ self_prev_data = atStart.prev_data)
    /\ \A snap \in {self_data, self_prev_data} : snap # None => Complete(snap[1])
    /\ \A i \in 1..Len(published) : Complete(published[i])

\* A poll that failed at its third group fetch, after two polls that succeeded.
C1_Witness ==
    /\ FetchFailed
    /\ Cardinality(DOMAIN data) = 2
    /\ self_data # None
    /\ self_prev_data # None
    /\ self_data # self_prev_data

\* C2: _data is the snapshot of the latest successful async_get_data and
\* _prev_data that of the success before it (None when there is none), over
\* any sequence of successful and failed polls; right after a success
\* _prev_data is what _data was when the call started.
C2_PreviousIsPriorCurrent ==
    /\ self_data = IF Len(published) >= 1 THEN Some(published[Len(published)]) ELSE None
    /\ self_prev_data =
          IF Len(published) >= 2 THEN Some(published[Len(published) - 1]) ELSE None
    /\ (op = "async_get_data" /\ pc = "idle" /\ outcome = "ok")
          => (self_prev_data = atStart.data /\ self_data # None)

\* Two different snapshots published, then a failed poll.
C2_Witness ==
    /\ Len(published) = 2
    /\ published[1] # published[2]
    /\ FetchFailed

\* C3, as claimed: an update task created while another task was pending is
\* dropped when it runs, and leaves the accumulator as it was.
C3_SecondTriggerDropped ==
    (last.kind \in {"update", "dropped"} /\ last.conc)
        => (last.kind = "dropped" /\ Acc = last.pre)

\* C3, amended: the guard is never found held and no task is dropped; an
\* update task created while another task was pending is applied when it
\* runs: it adds its trapezoid and records its value and time.
C3_ConcurrentTriggersBothApplied ==
    /\ ~self_is_updating
    /\ last.kind # "dropped"
    /\ (last.kind = "update" /\ last.conc)
          => /\ self_last_value = Some(last.v)
             /\ self_last_update = Some(last.t)
             /\ last.pre.last_value # None
                  => self_state = last.pre.state
                        + (last.pre.last_value[1] + last.v) * (last.t - last.pre.last_update[1])

\* The second of two concurrent triggers has run and changed the last value.
C3_Witness ==
    /\ last.kind = "update"
    /\ last.conc
    /\ last.pre.last_value # None
    /\ last.pre.last_value # self_last_value
    /\ last.pre.last_update = Some(last.t)

\* C4: an applied observation (v, t) on an accumulator with no last value
\* leaves the total and records (v, t); on one with a last value it adds
\* ((lastValue + v) / 2) * (t - lastUpdate) hours and records (v, t).  From
\* total 0 and the observation (10, t0), the observation (20, t0 + 1 h) gives
\* the total 15.
C4_TrapezoidIncrement ==
    last.kind = "update" =>
        /\ self_last_value = Some(last.v)
        /\ self_last_update = Some(last.t)
        /\ last.pre.last_value = None => self_state = last.pre.state
        /\ last.pre.last_value # None =>
              2 * (self_state - last.pre.state)
                 = StateScale * (last.pre.last_value[1] + last.v)
                              * (last.t - last.pre.last_update[1])
        /\ (/\ last.pre.state = 0
            /\ last.pre.last_value = Some(10)
            /\ last.v = 20
            /\ Some(last.t - 1) = last.pre.last_update)
              => self_state = 15 * StateScale

\* The observation (20, t0 + 1 h) applied after (10, t0): the total is 15.
C4_Witness ==
    /\ last.kind = "update"
    /\ last.pre = [NewAcc EXCEPT !.last_value = Some(10), !.last_update = Some(StartClock)]
    /\ last.v = 20
    /\ last.t = StartClock + 1
    /\ self_state = 15 * StateScale

\* C5, as claimed: right after the midnight reset the total is 0 and
\* lastValue and lastUpdate are None, whatever the source reports.
C5_ResetClearsAll ==
    last.kind = "reset" =>
        (self_state = 0 /\ self_last_value = None /\ self_last_update = None)

\* C5, amended: right after the midnight reset the total is 0; lastValue and
\* lastUpdate are None when the source reports no number, and otherwise the
\* source's current value and the time of the reset.
C5_ResetZeroesAndReseeds ==
    last.kind = "reset" =>
        /\ self_state = 0
        /\ ~Numeric(source) => (self_last_value = None /\ self_last_update = None)
        /\ Numeric(source) => /\ self_last_value = Some(NumberOf(source))
                              /\ self_last_update = Some(clock)

\* A reset of a non-zero total while the source reports a number.
C5_Witness ==
    /\ last.kind = "reset"
    /\ last.pre.state > 0
    /\ Numeric(source)
    /\ self_last_value # None

\* C6: a daily accumulator restored from a state whose lastUpdate is on an
\* earlier local date than now has total 0 and nothing of the persisted
\* lastValue / lastUpdate (it holds none, or the source's value at the time of
\* the restart); restored from a state of the current local date it keeps
\* the persisted total, lastValue and lastUpdate.
C6_RestoreOnNewDayResets ==
    (last.kind = "restore" /\ daily /\ last.pre.last_update # None) =>
        IF LocalDate(last.pre.last_update[1]) < LocalDate(clock)
        THEN /\ self_state = 0
             /\ self_last_update \in {None, Some(clock)}
             /\ self_last_value = IF Numeric(source) THEN Some(NumberOf(source)) ELSE None
             /\ (self_last_value = None) <=> (self_last_update = None)
        ELSE /\ self_state = last.pre.state
             /\ self_last_value = last.pre.last_value
             /\ self_last_update = last.pre.last_update

\* A restart after local midnight from a state of the day before with a
\* non-zero total, less than a UTC day boundary apart.
C6_Witness ==
    /\ last.kind = "restore"
    /\ daily
    /\ last.pre.state > 0
    /\ last.pre.last_update # None
    /\ LocalDate(last.pre.last_update[1]) < LocalDate(clock)
    /\ self_state = 0

\* The accumulator persisted now and restored at the time now with the source
\* reporting src behaves on the next observation as the one that went on.
RoundTripAgrees(src, now) ==
    LET restored == AddedToHass(Some(ExtraStateAttributes(Acc)), daily, src, now)
    IN \A v \in {10, 20}, t \in now..MaxClock :
          UpdateIntegral(restored, v, t) = UpdateIntegral(Acc, v, t)

\* The restart times on the local day of lastUpdate (any time if there is none).
SameLocalDay(now) ==
    self_last_update # None => LocalDate(self_last_update[1]) = LocalDate(now)

RestartTimes == {now \in clock..MaxClock : SameLocalDay(now)}

\* C7, as claimed: the round trip agrees for every reachable state, the one
\* with lastValue = None included, whatever the source reports at the restart.
C7_RoundTripAllStates ==
    \A src \in SourceStates, now \in RestartTimes : RoundTripAgrees(src, now)

\* C7, amended: the round trip agrees for every reachable state with a last
\* value, and for the state with lastValue = None when the source reports no
\* number at the restart.
C7_RoundTripWithLastValue ==
    \A src \in SourceStates, now \in RestartTimes :
        (self_last_value # None \/ ~Numeric(src)) => RoundTripAgrees(src, now)

\* A restart has restored a non-zero total with its last value and time.
C7_Witness ==
    /\ last.kind = "restore"
    /\ self_state > 0
    /\ self_last_value # None
    /\ self_last_update # None
    /\ SameLocalDay(clock)
    /\ Acc = last.pre

\* C8: a change event or a periodic tick that finds the source missing,
\* "unknown", "unavailable" or not a number leaves the accumulator as it
\* was, schedules nothing and leaves the guard free; one that finds a number
\* schedules an update.
C8_InvalidObservationIgnored ==
    last.kind \in {"changed", "periodic"} =>
        /\ Acc = last.pre
        /\ ~self_is_updating
        /\ Len(tasks) = IF Numeric(source) THEN last.queued + 1 ELSE last.queued

\* A non-numeric observation on an accumulator that holds a total.
C8_Witness ==
    /\ last.kind \in {"changed", "periodic"}
    /\ source = Some("abc")
    /\ self_state > 0
    /\ tasks = <<>>

\* C9, as claimed: an operation whose last response was HTTP 401 or 403 ends
\* with the authentication error.
C9_AuthErrorOn401 ==
    (pc = "idle" /\ lastResp.status \in {401, 403}) => outcome = AuthenticationError

\* C10, as claimed: an operation ends normally or with one of the three typed
\* errors.
C10_OnlyTypedErrors == outcome \in {"none", "ok"} \cup TypedErrors

\* The step in which a request of the operation in flight runs into the timeout.
TimedOut == lastResp.kind # "timeout" /\ lastResp'.kind = "timeout"

\* C11: the step in which a request times out ends the operation with
\* CommunicationError and without a further request (no retry, and in
\* async_get_data no fetch of the remaining groups: the fetched dict stays as
\* it is); once an operation has ended, a request is only issued by a new
\* operation.
C11_TimeoutIsCommunicationError ==
    [][/\ TimedOut => /\ pc' = "idle"
                      /\ outcome' = CommunicationError
                      /\ sent' = sent
                      /\ data' = data
                      /\ calls' = calls
       /\ (pc = "idle" /\ sent' # sent) => calls' = calls + 1]_vars

\* The second group fetch of async_get_data has timed out.
C11_Witness ==
    /\ op = "async_get_data"
    /\ pc = "idle"
    /\ lastResp.kind = "timeout"
    /\ outcome = CommunicationError
    /\ DOMAIN data = {"user_sets"}
    /\ Len(sent) = 3

\* The url of the requests an operation issues after its login.
UrlOf(name) == IF name = "async_get_data" THEN "get" ELSE "command"

\* The requests of a whole operation: the login and the group fetches or the command.
RequestsOf(name) == IF name = "async_get_data" THEN 1 + Len(UUIDS) ELSE 2

\* C12: the requests of an operation are one login, sent first and without a
\* token, followed by the group fetches (three when the call succeeds) or by
\* the one command; each of them carries the token the backend issued last,
\* which is the token of this operation's login and of no earlier operation.
C12_OneLoginFreshToken ==
    sent # <<>> =>
        /\ sent[1] = Request("login", None)
        /\ Len(sent) <= RequestsOf(op)
        /\ \A i \in 2..Len(sent) :
            /\ sent[i].url = UrlOf(op)
            /\ sent[i].auth = Some(nextToken - 1)
        /\ (pc = "idle" /\ outcome = "ok") => Len(sent) = RequestsOf(op)

\* A fetch that succeeded after a command that succeeded: the command's login
\* was given token 1 and the three fetches carry token 2.
C12_Witness ==
    /\ op = "async_get_data"
    /\ pc = "idle"
    /\ outcome = "ok"
    /\ timers # <<>>
    /\ calls = 2
    /\ \A i \in 2..4 : sent[i] = Request("get", Some(2))

\* ------------------------------------------------- derived metrics (C13 - C17)

\* A call of _get_aero_state has returned or raised.
AeroReturned == called # None /\ returned # None /\ called[1].fn = "_get_aero_state"

\* The reading at an address of the call's current data.
Reading(address) == Measure(called[1].data[1], "other_data", address)

\* The readings the operating mode requires: cooling power, heating power,
\* ACS temperature, target heating temperature, return temperature.
RequiredAddresses == {"134", "133", "11", "170", "2"}

BothPresent == called[1].data # None /\ called[1].prev_data # None

NoneMissing == \A a \in RequiredAddresses : Reading(a) # None

Positive(x) == x # None /\ IsNumber(x[1]) /\ x[1][2] > 0

NotPositive(x) == x # None /\ IsNumber(x[1]) /\ x[1][2] <= 0

\* C13: _get_aero_state returns IDLE when data or prev_data is None, when one
\* of the five required readings is absent from data, and when cooling power
\* and heating power are both 0.
C13_IdleWhenAbsentMissingOrPowerless ==
    AeroReturned =>
        ((\/ ~BothPresent
          \/ ~NoneMissing
          \/ Reading("134") = Some(PyInt(0)) /\ Reading("133") = Some(PyInt(0)))
         => returned[1] = Returns(AeroIDLE))

\* IDLE although the cooling power is 5: the ACS temperature is missing.
C13_Witness ==
    /\ AeroReturned
    /\ BothPresent
    /\ Reading("11") = None
    /\ Reading("134") = Some(PyInt(5))
    /\ Reading("133") = Some(PyInt(0))
    /\ returned[1] = Returns(AeroIDLE)

\* C14 as stated: cooling power 5 and heating power 0 give COOLING whatever
\* the rest of the input is.
C14_CoolingRegardlessOfAllFields ==
    (/\ AeroReturned
     /\ called[1].data # None
     /\ Reading("134") = Some(PyInt(5))
     /\ Reading("133") = Some(PyInt(0)))
    => returned[1] = Returns(AeroCOOLING)

\* C14: with data and prev_data present and none of the five required
\* readings absent, a cooling power above 0 gives COOLING whatever the
\* heating power (also above 0, also not a number), the temperatures, DG1
\* and the winter flag are.
C14_CoolingFirst ==
    (AeroReturned /\ BothPresent /\ NoneMissing /\ Positive(Reading("134")))
    => returned[1] = Returns(AeroCOOLING)

\* COOLING with cooling power 5 and heating power 3.
C14_Witness ==
    /\ AeroReturned
    /\ BothPresent
    /\ NoneMissing
    /\ Reading("134") = Some(PyInt(5))
    /\ Reading("133") = Some(PyInt(3))
    /\ returned[1] = Returns(AeroCOOLING)

\* The mode of the heating branch the spec gives for numeric temperatures,
\* in hundredths, a DG1 reading and a winter reading.
ExpectedHeatingMode(temp_return, target_heat, dg1, is_winter) ==
    IF temp_return > target_heat + 500
    THEN IF dg1 \in {Some(PyInt(1)), Some(PyStr("1"))}
         THEN <<"ACS", "waiting">>
              \o (IF is_winter \in {None, Some(PyInt(0))} THEN AeroCOOLING ELSE AeroHEATING)
         ELSE AeroACS
    ELSE AeroHEATING

\* C15: with data and prev_data present, no required reading absent, a
\* cooling power not above 0, a heating power above 0 and numeric
\* temperatures, the mode is ACS when the return temperature is strictly
\* above the target plus 5 and HEATING otherwise (also at equality); ACS is
\* followed by "waiting" and HEATING (winter flag set) or COOLING exactly when
\* the text of the DG1 reading, str(dg1), is "1".
C15_AcsAboveThreshold ==
    (/\ AeroReturned /\ BothPresent /\ NoneMissing
     /\ NotPositive(Reading("134"))
     /\ Positive(Reading("133"))
     /\ IsNumber(Reading("170")[1])
     /\ IsNumber(Reading("2")[1]))
    => returned[1] = Returns(ExpectedHeatingMode(Hundredths(Reading("2")[1]),
                                                 Hundredths(Reading("170")[1]),
                                                 Reading("5183"), Reading("202")))

\* Cooling 0, heating 3, return 30, target 20, DG1 1, winter 1: ACS waiting HEATING.
C15_Witness ==
    /\ AeroReturned
    /\ BothPresent
    /\ Reading("134") = Some(PyInt(0))
    /\ Reading("133") = Some(PyInt(3))
    /\ Reading("11") = Some(PyInt(45))
    /\ Reading("2") = Some(PyInt(30))
    /\ Reading("170") = Some(PyInt(20))
    /\ Reading("5183") = Some(PyInt(1))
    /\ Reading("202") = Some(PyInt(1))
    /\ returned[1] = Returns(<<"ACS", "waiting", "HEATING">>)

\* C16: when async_get_data has fetched every group, it returns a snapshot:
\* the enrichment raises nothing.
C16_EnrichmentNeverRaises ==
    (op = "async_get_data" /\ pc = "idle" /\ DOMAIN data = Groups) => outcome = "ok"

\* A call of _get_dew_point has returned or raised.
DewReturned == called # None /\ returned # None /\ called[1].fn = "_get_dew_point"

MissingOrZero(x) == x = None \/ (IsNumber(x[1]) /\ x[1][2] = 0)

MissingOrNumber(x) == x = None \/ IsNumber(x[1])

\* C17: for a temperature and a humidity that are each missing or a number,
\* _get_dew_point returns None exactly when one of them is missing or zero;
\* for the other pairs with a humidity above 0 and a temperature other than
\* -243.04 it returns a number.
C17_NullIffMissingOrZero ==
    (DewReturned /\ MissingOrNumber(called[1].temp) /\ MissingOrNumber(called[1].humidity))
    => LET temp == called[1].temp
           humidity == called[1].humidity
       IN /\ (returned[1] = Returns(None)) <=> (MissingOrZero(temp) \/ MissingOrZero(humidity))
          /\ (/\ ~MissingOrZero(temp) /\ ~MissingOrZero(humidity)
              /\ Hundredths(humidity[1]) > 0
              /\ Hundredths(temp[1]) # -MagnusC)
             => (returned[1].raised = "none" /\ returned[1].value # None)

\* dewPoint(0, 50) is null.
C17_Witness ==
    /\ DewReturned
    /\ called[1].temp = Some(PyInt(0))
    /\ called[1].humidity = Some(PyInt(50))
    /\ returned[1] = Returns(None)

\* ------------------------------------------------ polling and commands (C18, C19)

PollSucceeded == op = "async_get_data" /\ pc = "idle" /\ outcome = "ok"

Commands == {"_switch", "async_update_number"}

\* The step in which a command of a switch or number entity returns or raises.
CommandEnds == op \in Commands /\ pc # "idle" /\ pc' = "idle"

\* C19: the step that ends a command with success schedules one
\* _scheduled_refresh 5 seconds later and starts no fetch and changes no
\* snapshot; the step that ends it with an error schedules nothing and leaves
\* the error as the outcome; a timer that expires is consumed alone and asks
\* for one refresh.
C19_CommandSchedulesOneRefresh ==
    [][/\ CommandEnds =>
            IF outcome' = "ok"
            THEN /\ timers' = Append(timers, [delay |-> 5, action |-> "_scheduled_refresh"])
                 /\ calls' = calls
                 /\ coordinator' = coordinator
                 /\ self_data' = self_data
            ELSE /\ timers' = timers
                 /\ outcome' \notin {"ok", "none"}
       /\ Len(timers') < Len(timers) =>
            /\ timers' = Tail(timers)
            /\ calls' = IF pc = "idle" THEN calls + 1 ELSE calls]_vars

\* A number update has returned with its refresh pending and no snapshot fetched.
C19_Witness ==
    /\ op = "async_update_number"
    /\ pc = "idle"
    /\ outcome = "ok"
    /\ timers = <<[delay |-> 5, action |-> "_scheduled_refresh"]>>
    /\ coordinator.data = None

\* ----------------------------------------------------------- the total (C20)

\* C20: an observation applied by _update_integral never leaves the total
\* smaller than it was.
C20_TotalNeverDecreases ==
    (called # None /\ returned # None /\ called[1].fn = "_update_integral")
    => returned[1].state >= called[1].acc.state

\* ------------------------------------------------ the accumulator (C21, C29, C30)

\* A reset task is pending.
ResetPending(queue) == \E i \in 1..Len(queue) : queue[i].kind = "reset"

\* C21: for a non-daily accumulator the midnight trigger never fires and no
\* reset is ever queued; a restart leaves it with the persisted total, also
\* when the persisted lastUpdate is on an earlier local date; any other step
\* that changes the total is an update task that adds its trapezoid.
C21_NeverPolicyNeverResets ==
    [][~daily =>
         /\ ~midnightDue'
         /\ ~ResetPending(tasks')
         /\ last'.kind = "restore" => self_state' = stored[1].last_state
         /\ (self_state' # self_state /\ last'.kind # "restore") =>
               /\ tasks # <<>>
               /\ Head(tasks).kind = "update"
               /\ self_last_value # None
               /\ self_state' = self_state
                     + (self_last_value[1] + Head(tasks).v)
                       * (Head(tasks).t - self_last_update[1])]_vars

\* A non-daily accumulator restored on the local day after its lastUpdate,
\* with its total.
C21_Witness ==
    /\ ~daily
    /\ last.kind = "restore"
    /\ self_state > 0
    /\ self_last_update # None
    /\ LocalDate(self_last_update[1]) < LocalDate(clock)

\* --------------------------------------------------- the periodic interval (C22)

IntervalReturned ==
    called # None /\ called[1].fn = "_on_start_func_register" /\ returned # None

\* C22: the interval of the periodic update in minutes is
\* max(floor(P / 60), 1) for every configured poll interval of P seconds,
\* those shorter than a minute and those of a day or more included.
C22_IntervalIsPollIntervalInMinutes ==
    IntervalReturned =>
        returned[1] = Max(called[1].update_interval \div 60, 1)

\* C29: the midnight trigger of a daily accumulator always queues a reset
\* task, also behind pending update tasks, and a reset task that runs is
\* never dropped: it finds the guard free and leaves the total at 0,
\* whatever update tasks ran before it.  (A restart discards the pending
\* tasks with the old object.)
C29_MidnightResetNeverLost ==
    [][last'.kind # "restore" =>
         /\ (midnightDue /\ ~midnightDue') =>
               /\ Len(tasks') = Len(tasks) + 1
               /\ tasks'[Len(tasks')].kind = "reset"
         /\ (ResetPending(tasks) /\ ~ResetPending(tasks')) =>
               /\ last'.kind = "reset"
               /\ self_state' = 0
         /\ ResetPending(tasks') => daily]_vars

\* A reset task queued behind an update task has run on a total above 0.
C29_Witness ==
    /\ daily
    /\ last.kind = "reset"
    /\ last.conc
    /\ last.pre.state > 0
    /\ self_state = 0
    /\ LocalHour(clock) = 0

\* C30: the guard is free after every update or reset task, also after one
\* that ended with the exception of async_write_ha_state, so no task ever
\* finds it held and none is dropped.
C30_FlagAlwaysReleased ==
    /\ last.kind \in {"update", "reset", "dropped"} => ~self_is_updating
    /\ last.raised => (~self_is_updating /\ last.kind \in {"update", "reset"})
    /\ last.kind # "dropped"

\* An update task that raised at the state write is followed by one that
\* is pending and will find the guard free.
C30_Witness ==
    /\ last.kind = "update"
    /\ last.raised
    /\ self_last_value = Some(last.v)
    /\ ~self_is_updating
    /\ tasks # <<>>

\* ---------------------------------------------- published snapshots (C23, C27, C28)

\* The entries of the calc group: dew point, operating mode, active flag.
CalcAddresses == {"0000", "0001", "0002"}

\* The snapshots a consumer can read: those returned by async_get_data, the
\* client's current one and the one the coordinator holds.
Observable ==
    {published[i] : i \in 1..Len(published)}
        \cup (IF self_data = None THEN {} ELSE {self_data[1]})
        \cup (IF coordinator.data = None THEN {} ELSE {coordinator.data[1]})

CalcOf(snap) == snap["calc_data"]["obj"]["lastMeasure"]

\* C23: every snapshot returned by async_get_data, stored as _data or held by
\* the coordinator has the three configured groups and the calc_data group
\* with its three entries 0000, 0001 and 0002, at every moment, a poll in
\* flight included.
C23_PublishedSnapshotsCarryDerivedValues ==
    \A snap \in Observable :
        /\ Groups \subseteq DOMAIN snap
        /\ "calc_data" \in DOMAIN snap
        /\ DOMAIN CalcOf(snap) = CalcAddresses
        /\ \A address \in CalcAddresses :
              Measure(snap, "calc_data", address) # None

\* A second poll is fetching groups while the first snapshot, derived values
\* and a dew point included, is the current one.
C23_Witness ==
    /\ op = "async_get_data"
    /\ pc = "fetch"
    /\ Len(published) = 1
    /\ self_data = Some(published[1])
    /\ coordinator.data = self_data
    /\ CalcOf(published[1])["0000"] # None
    /\ DOMAIN data # {}

\* --------------------------------------------------- sensor availability (C24)

\* The snapshot holds a value, other than null, for the data point.
Carries(snap, sensor_data) ==
    /\ sensor_data.uuid_name \in DOMAIN snap
    /\ sensor_data.address \in DOMAIN snap[sensor_data.uuid_name]["obj"]["lastMeasure"]
    /\ snap[sensor_data.uuid_name]["obj"]["lastMeasure"][sensor_data.address] # None

\* C24: after a failed poll every sensor is unavailable, although the
\* coordinator may still hold a snapshot with its value; after a successful
\* poll a sensor is available exactly when the snapshot just published
\* carries its value; before the first snapshot no sensor is available.
C24_AvailableIffSuccessAndValue ==
    \A sensor_data \in sensors \cup calc_sensors :
        /\ FetchFailed => ~Available(coordinator, sensor_data)
        /\ PollSucceeded =>
              (Available(coordinator, sensor_data)
                  <=> Carries(published[Len(published)], sensor_data))
        /\ published = <<>> => ~Available(coordinator, sensor_data)

\* A poll has failed while the coordinator holds a snapshot with the room
\* temperature: the temperature sensor is unavailable.
C24_Witness ==
    /\ FetchFailed
    /\ coordinator.data # None
    /\ Carries(coordinator.data[1], [uuid_name |-> "main_data", address |-> "103"])
    /\ ~Available(coordinator, [uuid_name |-> "main_data", address |-> "103"])

\* ------------------------------------------------------- the UNKNOWN mode (C25)

\* C25: _get_aero_state returns UNKNOWN exactly when data and prev_data are
\* present, no required reading is absent, neither the cooling nor the
\* heating power is above 0 and they are not both 0; with a power above 0 or
\* both powers 0 it never returns UNKNOWN.
C25_UnknownIffNoPositivePowerAndNotBothZero ==
    AeroReturned =>
        /\ returned[1] = Returns(AeroUNKNOWN)
              <=> /\ BothPresent
                  /\ NoneMissing
                  /\ NotPositive(Reading("134"))
                  /\ NotPositive(Reading("133"))
                  /\ ~(Hundredths(Reading("134")[1]) = 0 /\ Hundredths(Reading("133")[1]) = 0)
        /\ (BothPresent /\ NoneMissing
            /\ (Positive(Reading("134")) \/ Positive(Reading("133"))))
              => returned[1] # Returns(AeroUNKNOWN)

\* UNKNOWN with cooling power 0 and heating power -1.
C25_Witness ==
    /\ AeroReturned
    /\ BothPresent
    /\ NoneMissing
    /\ Reading("134") = Some(PyInt(0))
    /\ Reading("133") = Some(PyInt(-1))
    /\ returned[1] = Returns(AeroUNKNOWN)

\* ------------------------------------------------------------- clamping (C26)

NativeReturned == called # None /\ called[1].fn = "native_value" /\ returned # None

\* The number is below the bound, which is set.
Below(x, bound) == bound # None /\ Hundredths(x) < Hundredths(bound[1])

Above(x, bound) == bound # None /\ Hundredths(x) > Hundredths(bound[1])

\* C26: native_value of a missing raw value is None; for a raw number it is
\* clamp_min when the number is below clamp_min, clamp_max when it is above
\* clamp_max, and the number itself otherwise (inside the bounds, or the
\* bound on its side unset), so it is never below clamp_min nor above
\* clamp_max.
C26_NativeValueClamped ==
    NativeReturned =>
        LET value == called[1].value
            lo == called[1].sensor_data.clamp_min
            hi == called[1].sensor_data.clamp_max
            result == returned[1].value
        IN /\ value = None => returned[1] = Returns(None)
           /\ (value # None /\ IsNumber(value[1])) =>
                 /\ returned[1].raised = "none"
                 /\ result # None
                 /\ ~Below(result[1], lo)
                 /\ ~Above(result[1], hi)
                 /\ Below(value[1], lo) => result = lo
                 /\ Above(value[1], hi) => result = hi
                 /\ (~Below(value[1], lo) /\ ~Above(value[1], hi)) => result = value

\* A raw value of 150 read through the bounds 0 and 100 is 100.
C26_Witness ==
    /\ NativeReturned
    /\ called[1].value = Some(PyInt(150))
    /\ called[1].sensor_data = [clamp_min |-> Some(PyInt(0)), clamp_max |-> Some(PyInt(100))]
    /\ returned[1] = Returns(Some(PyInt(100)))

\* ------------------------------------------------------ the first snapshot (C27)

ModeOf(snap) == CalcOf(snap)["0001"]

\* C27: the first snapshot a client publishes has operating mode IDLE and
\* active flag 0, whatever its telemetry is and whatever failed before it;
\* a snapshot with another mode is the second or a later one.
C27_FirstSnapshotIsIdle ==
    /\ published # <<>> =>
          /\ ModeOf(published[1]) = AeroIDLE
          /\ CalcOf(published[1])["0002"] = PyInt(0)
    /\ \A i \in 1..Len(published) : ModeOf(published[i]) # AeroIDLE => i >= 2

\* The first success, after a failed poll, carries a cooling power of 5 and
\* is published as IDLE.
C27_Witness ==
    /\ PollSucceeded
    /\ Len(published) = 1
    /\ coordinator.cleared >= 1
    /\ Measure(published[1], "other_data", "134") = Some(PyInt(5))
    /\ ModeOf(published[1]) = AeroIDLE

\* ---------------------------------------------------------- the active flag (C28)

FlagOf(snap) == CalcOf(snap)["0002"]

\* C28: in every snapshot published, current or held by the coordinator the
\* active flag is 0 when the operating mode is IDLE and 1 for any other
\* mode, UNKNOWN and ACS with a waiting mode included.
C28_ActiveFlagIffNotIdle ==
    \A snap \in Observable :
        /\ FlagOf(snap) \in {PyInt(0), PyInt(1)}
        /\ FlagOf(snap) = PyInt(0) <=> ModeOf(snap) = AeroIDLE
        /\ ModeOf(snap) \in {AeroUNKNOWN, AeroCOOLING, AeroHEATING, AeroACS}
              => FlagOf(snap) = PyInt(1)
        /\ Len(ModeOf(snap)) > 1 => FlagOf(snap) = PyInt(1)

\* An UNKNOWN snapshot and an ACS snapshot with a waiting mode have been
\* published, each with the flag 1.
C28_Witness ==
    /\ \E i \in 1..Len(published) :
          ModeOf(published[i]) = AeroUNKNOWN /\ FlagOf(published[i]) = PyInt(1)
    /\ \E i \in 1..Len(published) :
          Len(ModeOf(published[i])) > 1 /\ FlagOf(published[i]) = PyInt(1)

\* ------------------------------------------- the accumulator's attributes (C31)

\* C31: in every state of an accumulator, after observations, periodic
\* updates, midnight resets, persists and restarts, _last_value is None
\* exactly when _last_update is None, and a total other than 0 comes with a
\* _last_update.
C31_LastValueAndUpdateTogether ==
    /\ (self_last_value = None) <=> (self_last_update = None)
    /\ self_state # 0 => self_last_update # None
    /\ stored # None =>
          /\ (stored[1].last_value = None) <=> (stored[1].last_update = None)
          /\ stored[1].last_state # 0 => stored[1].last_update # None

\* A daily accumulator restored from its own persisted state with a total,
\* a last value and a last update.
C31_Witness ==
    /\ daily
    /\ last.kind = "restore"
    /\ self_state > 0
    /\ self_last_value # None
    /\ self_last_update # None
    /\ stored # None
    /\ stored[1].last_state = self_state

\* ------------------------------------------------ reads without a snapshot (C32)

EntityReads == {"switch.is_on", "binary_sensor.is_on", "number.native_value",
                "sensor.native_value"}

ReadReturned == called # None /\ called[1].fn \in EntityReads /\ returned # None

\* C32: with coordinator.data None, is_on of a switch and of a binary sensor
\* and native_value of a number and of a sensor return None and raise
\* nothing.
C32_ReadWithoutSnapshotReturnsNone ==
    (ReadReturned /\ called[1].coordinator.data = None)
        => returned[1] = Returns(None)

====
